---- MODULE Spec2Model ----
(***************************************************************************)
(* Session / credential lifecycle of the interview-preparation front end.  *)
(*                                                                         *)
(* AuthProvider (React context): the mount effect initAuth and the four    *)
(* operations login, register, logout and refreshToken.  Every async       *)
(* function runs atomically up to its await of axios.post; the code after  *)
(* the await runs atomically when the network call settles (single         *)
(* threaded event loop).  A promise continuation that is queued as a       *)
(* microtask (initAuth resuming after `await refreshToken()`) runs in the  *)
(* same step as the code that settled the promise, because no event of     *)
(* the loop can run between the two.                                       *)
(*                                                                         *)
(* NextAuth route (app/api/auth/[...nextauth]/route.ts): authorize, the    *)
(* signIn, jwt and session callbacks and the signOut event, driven in the  *)
(* order in which NextAuth invokes them.                                   *)
(***************************************************************************)
EXTENDS Integers, FiniteSets, Sequences, TLC

\* Number of calls of login/register/logout/refreshToken made by callers.
MaxCalls == 2
\* Number of sign-in attempts made through the NextAuth route.
MaxSignIns == 2
\* Largest initialTimeInSeconds a Timer is mounted with.
MaxTime == 4
\* Number of onComplete invocations followed within one countdown.
MaxOnComplete == 3

\* Minutes for which the clock read by the jwt callback is followed, from
\* the start and again from half an hour later.
MaxNow == 2

\* localStorage.getItem(...) === null, axios header '' : no token.
NoToken == 0
\* The token pair left in localStorage by an earlier page load.
Persisted == 1
\* user === null / user === undefined (response.data without `user`).
NullUser == 0
UndefinedUser == -1
\* The mount effect is call 0; callers' calls are 1..MaxCalls.
InitAuthId == 0

CallIds == 1 .. MaxCalls

\* Every successful response issues fresh credentials; they are named by
\* the call that received the response (2 for the mount, c + 2 for call c).
RespId(c) == c + 2

VARIABLES
  localStorage,     \* [access_token, refresh_token], NoToken when absent
  authHeader,       \* axios.defaults.headers.common['Authorization']
  user,             \* useState<User | null>
  isLoading,        \* useState(true)
  isAuthenticated,  \* useState(false)
  route,            \* last router.push target
  initPc,           \* position of the mount effect: start, awaiting, done
  calls,            \* per call: operation, position, observed result
  nextCall,         \* id of the next call a caller makes
  refreshPosts,     \* number of POST /api/auth/refresh issued so far
  last,             \* the step taken last: operation, call, event
  stale,            \* refreshes that were in flight when a logout completed
  idp,              \* the identity provider's view of the client's credentials
  naPc,             \* position of the NextAuth flow
  naFlow,           \* sign-in attempt: provider, correlation recorded/presented
  naUser,           \* the `user` NextAuth hands to the callbacks
  naToken,          \* the JWT kept in the session cookie
  naSession,        \* the session last returned by the session callback
  naNow,            \* Date.now(), in minutes
  naLog,            \* backend requests made by the route
  initialTimeInSeconds,  \* Timer prop
  onComplete,       \* Timer prop: whether a callback was passed
  timeRemaining,    \* Timer: useState(initialTimeInSeconds)
  isActive,         \* Timer: useState(autoStart)
  isPaused,         \* Timer: useState(false)
  strictMode,       \* reactStrictMode in a development build
  onCompleteCalls   \* invocations of onComplete since mount or the last reset

apVars == <<localStorage, authHeader, user, isLoading, isAuthenticated, route,
            initPc, calls, nextCall, refreshPosts, last, stale, idp>>

naVars == <<naPc, naFlow, naUser, naToken, naSession, naNow, naLog>>

tmVars == <<initialTimeInSeconds, onComplete, timeRemaining, isActive, isPaused,
            strictMode, onCompleteCalls>>

vars == <<localStorage, authHeader, user, isLoading, isAuthenticated, route,
          initPc, calls, nextCall, refreshPosts, last, stale, idp,
          naPc, naFlow, naUser, naToken, naSession, naNow, naLog,
          initialTimeInSeconds, onComplete, timeRemaining, isActive,
          isPaused, strictMode, onCompleteCalls>>

sessionVars == <<localStorage, authHeader, user, isAuthenticated>>

NoStorage == [access_token |-> NoToken, refresh_token |-> NoToken]

IdleCall == [op |-> "none", pc |-> "idle", auth |-> FALSE, post |-> 0, result |-> 0,
             sent |-> 0, valid |-> FALSE]

Event(op, id, ev) == [op |-> op, id |-> id, ev |-> ev, stale |-> id \in stale]

\* Refresh operations (mount included) whose network call is outstanding.
InFlightRefresh ==
  {c \in CallIds : calls[c].op = "refreshToken" /\ calls[c].pc = "awaiting"}
    \cup (IF initPc = "awaiting" THEN {InitAuthId} ELSE {})

----------------------------------------------------------------------------
(* NextAuth route: values.  0 stands for undefined in every field.         *)

OAuthProviders == {"google", "facebook"}
\* Correlation (state) values of a redirect-based sign-in.
CorrelationValues == {1, 2}

\* token.permissions: undefined, [] and the list sent by the backend.
NoPermissions == 0
EmptyPermissions == 1
UserPermissions == 2

\* new Date(Date.now() + 1000 * 60 * 30): thirty minutes, in minutes.
ThirtyMinutes == 30

NoJWT ==
  [accessToken |-> 0, refreshToken |-> 0, csrfToken |-> 0, id |-> 0, email |-> 0,
   role |-> 0, permissions |-> NoPermissions, provider |-> "", error |-> ""]

NoNaUser ==
  [id |-> 0, email |-> 0, role |-> 0, permissions |-> NoPermissions,
   accessToken |-> 0, refreshToken |-> 0, csrfToken |-> 0, provider |-> ""]

NoFlow == [provider |-> "none", recorded |-> 0, presented |-> 0, navigated |-> FALSE]

\* issuedAt: when the login response brought the access token; jwtAt: when
\* the jwt callback ran last
NoLog == [signIns |-> 0, loginPosts |-> 0, refreshPosts |-> 0, logoutPosts |-> 0,
          logoutAuthorization |-> 0, logoutCsrf |-> 0,
          issuedAt |-> 0, jwtAt |-> 0]

\* response.data of POST /api/auth/login/json
LoginResponses ==
  {r \in [user : {0, 1}, permissions : {NoPermissions, UserPermissions},
          access_token : {0, 1}, refresh_token : {0, 1}, csrf_token : {0, 1}] :
     r.user = 0 => r.permissions = NoPermissions}

\* outcome of POST /api/auth/refresh made by the jwt callback
RefreshResponses ==
  [ok : BOOLEAN, access_token : {0, 2}, refresh_token : {0, 2}, csrf_token : {0, 2}]

NextAuthInit ==
  /\ naPc = "signedOut"
  /\ naFlow = NoFlow
  /\ naUser = NoNaUser
  /\ naToken = NoJWT
  /\ naSession = NoJWT
  /\ naNow = 0
  /\ naLog = NoLog

\* A Timer after its first render with props initialTimeInSeconds,
\* onComplete and autoStart, in a production build or under reactStrictMode
TimerMounted(initial, callback, autoStart, strict) ==
  /\ initialTimeInSeconds = initial
  /\ onComplete = callback
  /\ timeRemaining = initial
  /\ isActive = autoStart
  /\ isPaused = FALSE
  /\ strictMode = strict
  /\ onCompleteCalls = 0

\* What an earlier page load can leave in localStorage: nothing (never
\* signed in, logout, failed refresh), both tokens (login, register), or
\* the access token alone (a refresh that resolved after a logout).
PersistedStores ==
  { NoStorage,
    [access_token |-> Persisted, refresh_token |-> Persisted],
    [access_token |-> Persisted, refresh_token |-> NoToken] }

----------------------------------------------------------------------------
(* State after construction: useState defaults, whatever an earlier page   *)
(* load left in localStorage, no default Authorization header.             *)
Init ==
  /\ localStorage \in PersistedStores
  /\ authHeader = NoToken
  /\ user = NullUser
  /\ isLoading = TRUE
  /\ isAuthenticated = FALSE
  /\ route = ""
  /\ initPc = "start"
  /\ calls = [c \in CallIds |-> IdleCall]
  /\ nextCall = 1
  /\ refreshPosts = 0
  /\ last = [op |-> "none", id |-> -1, ev |-> "none", stale |-> FALSE]
  /\ stale = {}
  /\ idp = [invalidated |-> {}, issuer |-> localStorage.access_token,
            expired |-> FALSE]
  /\ NextAuthInit
  /\ TimerMounted(1, FALSE, FALSE, FALSE)

----------------------------------------------------------------------------
(* Blocks of the source that several paths share.                          *)

\* login/register success path: store both tokens, header, user, flag, push.
SignedIn(c) ==
  /\ localStorage' = [access_token |-> RespId(c), refresh_token |-> RespId(c)]
  /\ authHeader' = RespId(c)
  /\ user' = RespId(c)
  /\ isAuthenticated' = TRUE
  /\ route' = "/dashboard"

\* a catch that signs the user out instead of only rethrowing
SignInFailed_ClearsSession ==
  /\ localStorage' = NoStorage
  /\ authHeader' = NoToken
  /\ user' = NullUser
  /\ isAuthenticated' = FALSE
  /\ UNCHANGED route

\* login/register catch: log and rethrow.
SignInFailed == UNCHANGED <<localStorage, authHeader, user, isAuthenticated, route>>

\* a logout that sends the user to the sign-in page like a failed refresh
LogoutFinally_RedirectsLogin ==
  /\ localStorage' = NoStorage
  /\ authHeader' = NoToken
  /\ user' = NullUser
  /\ isAuthenticated' = FALSE
  /\ route' = "/login"

\* logout finally block.
LogoutFinally ==
  /\ localStorage' = NoStorage
  /\ authHeader' = NoToken
  /\ user' = NullUser
  /\ isAuthenticated' = FALSE
  /\ route' = "/"

\* a success path that stores the new access token but leaves the header
RefreshStored_StaleHeader(c, hasUser) ==
  /\ localStorage' = [localStorage EXCEPT !.access_token = RespId(c)]
  /\ UNCHANGED authHeader
  /\ user' = IF hasUser THEN RespId(c) ELSE UndefinedUser

\* refreshToken success path: only access_token, header and user are written.
RefreshStored(c, hasUser) ==
  /\ localStorage' = [localStorage EXCEPT !.access_token = RespId(c)]
  /\ authHeader' = RespId(c)
  /\ user' = IF hasUser THEN RespId(c) ELSE UndefinedUser

\* a catch that forgets to remove the refresh token
RefreshCatch_KeepsRefreshToken ==
  /\ localStorage' = [localStorage EXCEPT !.access_token = NoToken]
  /\ authHeader' = NoToken
  /\ user' = NullUser
  /\ isAuthenticated' = FALSE
  /\ route' = "/login"

\* refreshToken catch block.
RefreshCatch ==
  /\ localStorage' = NoStorage
  /\ authHeader' = NoToken
  /\ user' = NullUser
  /\ isAuthenticated' = FALSE
  /\ route' = "/login"

----------------------------------------------------------------------------
(* Identity provider (POST /auth/refresh, /auth/logout): a refresh token   *)
(* is invalidated when a refresh rotates it or when a logout request is    *)
(* accepted.  idp.issuer is the refresh token that belongs to the access   *)
(* token now in localStorage, idp.expired tells whether that access token  *)
(* has passed its expiry.                                                  *)

\* the client dropped its access token
IdpDropped == idp' = [idp EXCEPT !.issuer = NoToken, !.expired = FALSE]

\* login / register answered: a fresh pair
IdpSignedIn(c) == idp' = [idp EXCEPT !.issuer = RespId(c), !.expired = FALSE]

\* refresh answered for the refresh token `sent`: a fresh access token, and
\* with rotation a fresh refresh token that replaces `sent`
IdpRefreshed(c, sent, rotated) ==
  idp' = [idp EXCEPT !.issuer = IF rotated THEN RespId(c) ELSE sent,
                     !.invalidated = IF rotated THEN @ \cup {sent} ELSE @,
                     !.expired = FALSE]

\* logout answered for the session of the bearer token
IdpLoggedOut(sent, backendOk) ==
  idp' = [idp EXCEPT !.issuer = NoToken, !.expired = FALSE,
                     !.invalidated = IF backendOk /\ sent # NoToken
                                       THEN @ \cup {sent} ELSE @]

----------------------------------------------------------------------------
(* Mount effect.                                                           *)

\* initAuth up to its first await (or to its end when nothing is awaited).
initAuth ==
  /\ initPc = "start"
  /\ IF localStorage.access_token = NoToken
       THEN \* no token: straight to setIsLoading(false)
            /\ isLoading' = FALSE
            /\ initPc' = "done"
            /\ last' = Event("initAuth", InitAuthId, "noToken")
            /\ UNCHANGED <<localStorage, authHeader, user, isAuthenticated,
                           route, refreshPosts, idp>>
       ELSE IF localStorage.refresh_token = NoToken
         THEN \* refreshToken throws before any await; its catch clears the
              \* session, then initAuth's catch clears the tokens again
              /\ RefreshCatch
              /\ isLoading' = FALSE
              /\ initPc' = "done"
              /\ last' = Event("initAuth", InitAuthId, "fail")
              /\ IdpDropped
              /\ UNCHANGED refreshPosts
         ELSE \* header set from the stored token, POST /api/auth/refresh
              /\ authHeader' = localStorage.access_token
              /\ refreshPosts' = refreshPosts + 1
              /\ initPc' = "awaiting"
              /\ last' = Event("initAuth", InitAuthId, "start")
              /\ UNCHANGED <<localStorage, user, isLoading, isAuthenticated,
                             route, idp>>
  /\ UNCHANGED <<calls, nextCall, stale>>
  /\ UNCHANGED <<naVars, tmVars>>

\* The mount-time refresh resolves: refreshToken's success path, then
\* initAuth's setIsAuthenticated(true) and setIsLoading(false).
initAuthRefreshed(hasUser, rotated) ==
  /\ initPc = "awaiting"
  /\ rotated => Persisted \notin idp.invalidated
  /\ RefreshStored(InitAuthId, hasUser)
  /\ IdpRefreshed(InitAuthId, Persisted, rotated)
  /\ isAuthenticated' = TRUE
  /\ isLoading' = FALSE
  /\ initPc' = "done"
  /\ last' = Event("initAuth", InitAuthId, "ok")
  /\ stale' = stale \ {InitAuthId}
  /\ UNCHANGED <<route, calls, nextCall, refreshPosts>>
  /\ UNCHANGED <<naVars, tmVars>>

\* setIsLoading(false) placed inside the try, skipped when the refresh throws
initAuthRefreshFailed_StillLoading ==
  /\ initPc = "awaiting"
  /\ RefreshCatch
  /\ IdpDropped
  /\ initPc' = "done"
  /\ last' = Event("initAuth", InitAuthId, "fail")
  /\ stale' = stale \ {InitAuthId}
  /\ UNCHANGED <<isLoading, calls, nextCall, refreshPosts>>
  /\ UNCHANGED <<naVars, tmVars>>

\* The mount-time refresh is rejected: refreshToken's catch, then
\* initAuth's catch and setIsLoading(false).
initAuthRefreshFailed ==
  /\ initPc = "awaiting"
  /\ RefreshCatch
  /\ IdpDropped
  /\ isLoading' = FALSE
  /\ initPc' = "done"
  /\ last' = Event("initAuth", InitAuthId, "fail")
  /\ stale' = stale \ {InitAuthId}
  /\ UNCHANGED <<calls, nextCall, refreshPosts>>
  /\ UNCHANGED <<naVars, tmVars>>

initAuthResume ==
  \/ \E hasUser, rotated \in BOOLEAN : initAuthRefreshed(hasUser, rotated)
  \/ initAuthRefreshFailed

----------------------------------------------------------------------------
(* The operations of the context.  A caller can call them once the         *)
(* provider has mounted (its effect has run).                              *)

\* `sent` is the credential the request carries (the refresh token in the
\* body of a refresh, the session of the bearer token of a logout); `valid`
\* tells whether the identity provider still honoured it at that time.
Issue(c, op, pc, post, sent) ==
  /\ initPc # "start"
  /\ nextCall = c
  /\ nextCall' = c + 1
  /\ calls' = [calls EXCEPT ![c] = [op |-> op, pc |-> pc,
                                    auth |-> isAuthenticated, post |-> post,
                                    result |-> IF pc = "rejected" THEN -1 ELSE 0,
                                    sent |-> sent,
                                    valid |-> sent # NoToken
                                              /\ sent \notin idp.invalidated]]

Settle(c, pc, result) ==
  calls' = [calls EXCEPT ![c].pc = pc, ![c].result = result]

\* login / register up to the await of axios.post
signInStart(c, op) ==
  /\ Issue(c, op, "awaiting", 0, NoToken)
  /\ isLoading' = TRUE
  /\ last' = Event(op, c, "start")
  /\ UNCHANGED <<localStorage, authHeader, user, isAuthenticated, route,
                 initPc, refreshPosts, stale, idp>>
  /\ UNCHANGED <<naVars, tmVars>>

\* a sign-in whose response is dropped when a call issued after it has
\* settled already (effects applied in the order of issue)
signInResolved_IssueOrder(c, op) ==
  /\ calls[c].op = op /\ calls[c].pc = "awaiting"
  /\ IF \E d \in CallIds : d > c /\ calls[d].pc \in {"resolved", "rejected"}
       THEN UNCHANGED <<localStorage, authHeader, user, isAuthenticated,
                        route, idp>>
       ELSE SignedIn(c) /\ IdpSignedIn(c)
  /\ isLoading' = FALSE
  /\ Settle(c, "resolved", RespId(c))
  /\ last' = Event(op, c, "ok")
  /\ stale' = {}
  /\ UNCHANGED <<initPc, nextCall, refreshPosts>>
  /\ UNCHANGED <<naVars, tmVars>>

\* the response arrives: success path and finally
signInResolved(c, op) ==
  /\ calls[c].op = op /\ calls[c].pc = "awaiting"
  /\ SignedIn(c)
  /\ IdpSignedIn(c)
  /\ isLoading' = FALSE
  /\ Settle(c, "resolved", RespId(c))
  /\ last' = Event(op, c, "ok")
  /\ stale' = {}
  /\ UNCHANGED <<initPc, nextCall, refreshPosts>>
  /\ UNCHANGED <<naVars, tmVars>>

\* setIsLoading(false) at the end of the try instead of in a finally
signInRejected_NoFinally(c, op) ==
  /\ calls[c].op = op /\ calls[c].pc = "awaiting"
  /\ SignInFailed
  /\ UNCHANGED isLoading
  /\ Settle(c, "rejected", -1)
  /\ last' = Event(op, c, "fail")
  /\ UNCHANGED <<initPc, nextCall, refreshPosts, stale, idp>>
  /\ UNCHANGED <<naVars, tmVars>>

\* the request fails: catch (rethrow) and finally
signInRejected(c, op) ==
  /\ calls[c].op = op /\ calls[c].pc = "awaiting"
  /\ SignInFailed
  /\ isLoading' = FALSE
  /\ Settle(c, "rejected", -1)
  /\ last' = Event(op, c, "fail")
  /\ UNCHANGED <<initPc, nextCall, refreshPosts, stale, idp>>
  /\ UNCHANGED <<naVars, tmVars>>

login(c) == signInStart(c, "login")
loginResolved(c) == signInResolved(c, "login")
loginRejected(c) == signInRejected(c, "login")

register(c) == signInStart(c, "register")
registerResolved(c) == signInResolved(c, "register")
registerRejected(c) == signInRejected(c, "register")

\* logout up to the await of POST /api/auth/logout
logout(c) ==
  /\ Issue(c, "logout", "awaiting", 0,
           IF authHeader = NoToken THEN NoToken ELSE idp.issuer)
  /\ last' = Event("logout", c, "start")
  /\ UNCHANGED <<localStorage, authHeader, user, isLoading, isAuthenticated,
                 route, initPc, refreshPosts, stale, idp>>
  /\ UNCHANGED <<naVars, tmVars>>

\* the local clear placed in the try after the await, no catch: a failed
\* backend request rejects the call and clears nothing
logoutSettled_ClearInTry(c, backendOk) ==
  /\ calls[c].op = "logout" /\ calls[c].pc = "awaiting"
  /\ IF backendOk
       THEN LogoutFinally /\ Settle(c, "resolved", 0)
       ELSE /\ Settle(c, "rejected", -1)
            /\ UNCHANGED <<localStorage, authHeader, user, isAuthenticated, route>>
  /\ last' = Event("logout", c, IF backendOk THEN "ok" ELSE "backendFail")
  /\ stale' = InFlightRefresh
  /\ IdpLoggedOut(calls[c].sent, backendOk)
  /\ UNCHANGED <<isLoading, initPc, nextCall, refreshPosts>>
  /\ UNCHANGED <<naVars, tmVars>>

\* the logout request settles, either way: catch swallows, finally clears
logoutSettled(c, backendOk) ==
  /\ calls[c].op = "logout" /\ calls[c].pc = "awaiting"
  /\ LogoutFinally
  /\ Settle(c, "resolved", 0)
  /\ last' = Event("logout", c, IF backendOk THEN "ok" ELSE "backendFail")
  /\ stale' = InFlightRefresh
  /\ IdpLoggedOut(calls[c].sent, backendOk)
  /\ UNCHANGED <<isLoading, initPc, nextCall, refreshPosts>>
  /\ UNCHANGED <<naVars, tmVars>>

\* a catch that flips isAuthenticated instead of setting it to false
refreshToken_TogglesAuthenticated(c) ==
  /\ IF localStorage.refresh_token = NoToken
       THEN /\ Issue(c, "refreshToken", "rejected", 0, NoToken)
            /\ localStorage' = NoStorage
            /\ authHeader' = NoToken
            /\ user' = NullUser
            /\ isAuthenticated' = ~isAuthenticated
            /\ route' = "/login"
            /\ IdpDropped
            /\ last' = Event("refreshToken", c, "fail")
            /\ UNCHANGED refreshPosts
       ELSE /\ Issue(c, "refreshToken", "awaiting", refreshPosts + 1,
                     localStorage.refresh_token)
            /\ refreshPosts' = refreshPosts + 1
            /\ last' = Event("refreshToken", c, "start")
            /\ UNCHANGED <<localStorage, authHeader, user, isAuthenticated,
                           route, idp>>
  /\ UNCHANGED <<isLoading, initPc, stale>>
  /\ UNCHANGED <<naVars, tmVars>>

\* refreshToken up to its await; without a stored refresh token it throws
\* inside the try and its own catch runs at once
refreshToken(c) ==
  /\ IF localStorage.refresh_token = NoToken
       THEN /\ Issue(c, "refreshToken", "rejected", 0, NoToken)
            /\ RefreshCatch
            /\ IdpDropped
            /\ last' = Event("refreshToken", c, "fail")
            /\ UNCHANGED refreshPosts
       ELSE /\ Issue(c, "refreshToken", "awaiting", refreshPosts + 1,
                     localStorage.refresh_token)
            /\ refreshPosts' = refreshPosts + 1
            /\ last' = Event("refreshToken", c, "start")
            /\ UNCHANGED <<localStorage, authHeader, user, isAuthenticated,
                           route, idp>>
  /\ UNCHANGED <<isLoading, initPc, stale>>
  /\ UNCHANGED <<naVars, tmVars>>

\* the identity provider answers a refresh only for a refresh token it
\* honoured while the request was under way, and rotates it only once
refreshTokenResolved(c, hasUser, rotated) ==
  /\ calls[c].op = "refreshToken" /\ calls[c].pc = "awaiting"
  /\ calls[c].valid
  /\ rotated => calls[c].sent \notin idp.invalidated
  /\ RefreshStored(c, hasUser)
  /\ IdpRefreshed(c, calls[c].sent, rotated)
  /\ Settle(c, "resolved", RespId(c))
  /\ last' = Event("refreshToken", c, "ok")
  /\ stale' = stale \ {c}
  /\ UNCHANGED <<isLoading, isAuthenticated, route, initPc, nextCall, refreshPosts>>
  /\ UNCHANGED <<naVars, tmVars>>

\* a catch that sends the refresh request once more on its own
refreshTokenRejected_Retries(c) ==
  /\ calls[c].op = "refreshToken" /\ calls[c].pc = "awaiting"
  /\ RefreshCatch
  /\ IdpDropped
  /\ Settle(c, "rejected", -1)
  /\ refreshPosts' = refreshPosts + 1
  /\ last' = Event("refreshToken", c, "fail")
  /\ stale' = stale \ {c}
  /\ UNCHANGED <<isLoading, initPc, nextCall>>
  /\ UNCHANGED <<naVars, tmVars>>

refreshTokenRejected(c) ==
  /\ calls[c].op = "refreshToken" /\ calls[c].pc = "awaiting"
  /\ RefreshCatch
  /\ IdpDropped
  /\ Settle(c, "rejected", -1)
  /\ last' = Event("refreshToken", c, "fail")
  /\ stale' = stale \ {c}
  /\ UNCHANGED <<isLoading, initPc, nextCall, refreshPosts>>
  /\ UNCHANGED <<naVars, tmVars>>

Next ==
  \/ initAuth
  \/ initAuthResume
  \/ \E c \in CallIds : login(c)
  \/ \E c \in CallIds : loginResolved(c)
  \/ \E c \in CallIds : loginRejected(c)
  \/ \E c \in CallIds : register(c)
  \/ \E c \in CallIds : registerResolved(c)
  \/ \E c \in CallIds : registerRejected(c)
  \/ \E c \in CallIds : logout(c)
  \/ \E c \in CallIds, backendOk \in BOOLEAN : logoutSettled(c, backendOk)
  \/ \E c \in CallIds : refreshToken(c)
  \/ \E c \in CallIds, hasUser, rotated \in BOOLEAN :
       refreshTokenResolved(c, hasUser, rotated)
  \/ \E c \in CallIds : refreshTokenRejected(c)

Spec == Init /\ [][Next]_vars

\* Every network call of the mount effect eventually settles.
FairSpec == Spec /\ WF_vars(initAuthResume)

----------------------------------------------------------------------------
(* Mount over partially written storage.  The two keys are written and     *)
(* removed one statement at a time and other tabs of the same origin share *)
(* them, so a page load can also find the refresh token alone.             *)

PartialStores ==
  PersistedStores \cup {[access_token |-> NoToken, refresh_token |-> Persisted]}

PartialInit ==
  /\ localStorage \in PartialStores
  /\ authHeader = NoToken
  /\ user = NullUser
  /\ isLoading = TRUE
  /\ isAuthenticated = FALSE
  /\ route = ""
  /\ initPc = "start"
  /\ calls = [c \in CallIds |-> IdleCall]
  /\ nextCall = 1
  /\ refreshPosts = 0
  /\ last = [op |-> "none", id |-> -1, ev |-> "none", stale |-> FALSE]
  /\ stale = {}
  /\ idp = [invalidated |-> {}, issuer |-> localStorage.access_token,
            expired |-> FALSE]
  /\ NextAuthInit
  /\ TimerMounted(1, FALSE, FALSE, FALSE)

PartialSpec == PartialInit /\ [][Next]_vars

----------------------------------------------------------------------------
(* The application around the provider: time passes, and the pages make    *)
(* authenticated calls of their own.                                       *)

\* The access token in localStorage passes its expiry.  The provider keeps
\* no expiry hint and runs no timer, so nothing of its state changes.
accessTokenExpires ==
  /\ localStorage.access_token # NoToken
  /\ ~idp.expired
  /\ idp' = [idp EXCEPT !.expired = TRUE]
  /\ UNCHANGED <<localStorage, authHeader, user, isLoading, isAuthenticated,
                 route, initPc, calls, nextCall, refreshPosts, last, stale>>
  /\ UNCHANGED <<naVars, tmVars>>

\* An authenticated call of a page (fetch of /api/subscriptions/my) is
\* rejected by the backend as carrying an invalid token: the page records an
\* error of its own, the provider has no handler for it.
requestRejected ==
  /\ isAuthenticated
  /\ last' = Event("request", -1, "invalidToken")
  /\ UNCHANGED <<localStorage, authHeader, user, isLoading, isAuthenticated,
                 route, initPc, calls, nextCall, refreshPosts, stale, idp>>
  /\ UNCHANGED <<naVars, tmVars>>

AppNext ==
  \/ Next
  \/ accessTokenExpires
  \/ requestRejected

AppSpec == Init /\ [][AppNext]_vars

----------------------------------------------------------------------------
(* NextAuth route: callbacks.                                              *)

\* an authorize that accepts a response with an access token but no user
AuthorizeResult_TokenOnly(ok, resp) ==
  IF ok /\ resp.access_token # 0
    THEN [id |-> resp.user, email |-> resp.user, role |-> resp.user,
          permissions |-> resp.permissions,
          accessToken |-> resp.access_token, refreshToken |-> resp.refresh_token,
          csrfToken |-> resp.csrf_token, provider |-> "credentials"]
    ELSE NoNaUser

\* authorize after the backend answered: a user object only when the
\* response carries both user and access_token, null otherwise.
AuthorizeResult(ok, resp) ==
  IF ok /\ resp.user # 0 /\ resp.access_token # 0
    THEN [id |-> resp.user, email |-> resp.user, role |-> resp.user,
          permissions |-> resp.permissions,
          accessToken |-> resp.access_token, refreshToken |-> resp.refresh_token,
          csrfToken |-> resp.csrf_token, provider |-> "credentials"]
    ELSE NoNaUser

\* callbacks.signIn: for google and facebook it assigns window.location.href
\* and returns true; where `window` is not defined the assignment throws and
\* the catch returns false.  Any other provider: true.
SignInCallback(provider, windowDefined) ==
  IF provider \in OAuthProviders THEN windowDefined ELSE TRUE

\* the token NextAuth passes to jwt on the initial sign-in: name, email, sub
DefaultToken(u) == [NoJWT EXCEPT !.email = u.email]

TokenExpiry(now) == now + ThirtyMinutes

\* a jwt callback that copies the tokens and the user but not the provider
JwtSignIn_NoProvider(token, u, provider) ==
  IF u # NoNaUser /\ provider # "none" /\ provider = "credentials"
    THEN [token EXCEPT !.accessToken = u.accessToken,
                       !.refreshToken = u.refreshToken,
                       !.csrfToken = u.csrfToken,
                       !.id = u.id, !.email = u.email, !.role = u.role,
                       !.permissions = IF u.permissions = NoPermissions
                                         THEN EmptyPermissions
                                         ELSE u.permissions]
    ELSE token

\* callbacks.jwt, initial sign-in part: only a credentials account fills
\* the token
JwtSignIn(token, u, provider) ==
  IF u # NoNaUser /\ provider # "none" /\ provider = "credentials"
    THEN [token EXCEPT !.accessToken = u.accessToken,
                       !.refreshToken = u.refreshToken,
                       !.csrfToken = u.csrfToken,
                       !.id = u.id, !.email = u.email, !.role = u.role,
                       !.permissions = IF u.permissions = NoPermissions
                                         THEN EmptyPermissions
                                         ELSE u.permissions,
                       !.provider = "credentials"]
    ELSE token

\* callbacks.jwt, expiry check: Date.now() > tokenExpiry.getTime() && token.refreshToken
JwtRefreshes(token, now) == now > TokenExpiry(now) /\ token.refreshToken # 0

\* callbacks.jwt, body of the expiry check: POST /api/auth/refresh, the
\* tokens of the response copied, or the error marked in the catch
JwtRefreshAttempt(token, refresh) ==
  IF refresh.ok
    THEN IF refresh.access_token # 0
           THEN [token EXCEPT !.accessToken = refresh.access_token,
                              !.refreshToken = refresh.refresh_token,
                              !.csrfToken = refresh.csrf_token]
           ELSE token
    ELSE [token EXCEPT !.error = "RefreshAccessTokenError"]

\* callbacks.jwt, refresh part
JwtRefresh(token, now, refresh) ==
  IF JwtRefreshes(token, now)
    THEN JwtRefreshAttempt(token, refresh)
    ELSE token

\* callbacks.jwt
JwtCallback(token, u, provider, now, refresh) ==
  JwtRefresh(JwtSignIn(token, u, provider), now, refresh)

\* callbacks.session
SessionCallback(token) ==
  [token EXCEPT !.permissions = IF token.permissions = NoPermissions
                                  THEN EmptyPermissions ELSE token.permissions]

\* authorize(credentials): null at once when email or password is missing,
\* POST /api/auth/login/json otherwise
authorize(hasEmail, hasPassword) ==
  /\ naPc = "signedOut"
  /\ naLog.signIns < MaxSignIns
  /\ naFlow' = [NoFlow EXCEPT !.provider = "credentials"]
  /\ naUser' = NoNaUser
  /\ IF hasEmail /\ hasPassword
       THEN /\ naPc' = "authorizing"
            /\ naLog' = [naLog EXCEPT !.signIns = @ + 1, !.loginPosts = @ + 1]
       ELSE /\ naPc' = "signedOut"
            /\ naLog' = [naLog EXCEPT !.signIns = @ + 1]
  /\ UNCHANGED <<naToken, naSession, naNow>>
  /\ UNCHANGED <<apVars, tmVars>>

authorizeSettled(ok, resp) ==
  /\ naPc = "authorizing"
  /\ naUser' = AuthorizeResult(ok, resp)
  /\ naPc' = IF naUser' = NoNaUser THEN "signedOut" ELSE "authorized"
  /\ naLog' = [naLog EXCEPT !.issuedAt = naNow]
  /\ UNCHANGED <<naFlow, naToken, naSession, naNow>>
  /\ UNCHANGED <<apVars, tmVars>>

\* a third-party sign-in starts: the correlation value is recorded and the
\* browser is sent to the provider
beginRedirect(provider, v) ==
  /\ naPc = "signedOut"
  /\ naLog.signIns < MaxSignIns
  /\ naFlow' = [NoFlow EXCEPT !.provider = provider, !.recorded = v]
  /\ naUser' = NoNaUser
  /\ naPc' = "redirected"
  /\ naLog' = [naLog EXCEPT !.signIns = @ + 1]
  /\ UNCHANGED <<naToken, naSession, naNow>>
  /\ UNCHANGED <<apVars, tmVars>>

\* the provider's callback comes back carrying a correlation value; the
\* route's callbacks receive account and profile only
oauthCallback(v) ==
  /\ naPc = "redirected"
  /\ naFlow' = [naFlow EXCEPT !.presented = v]
  /\ naUser' = [NoNaUser EXCEPT !.id = 1, !.email = 1]
  /\ naPc' = "authorized"
  /\ UNCHANGED <<naToken, naSession, naNow, naLog>>
  /\ UNCHANGED <<apVars, tmVars>>

signIn(windowDefined) ==
  /\ naPc = "authorized"
  /\ naPc' = IF SignInCallback(naFlow.provider, windowDefined)
               THEN "allowed" ELSE "signedOut"
  /\ naFlow' = [naFlow EXCEPT !.navigated =
                  naFlow.provider \in OAuthProviders /\ windowDefined]
  /\ UNCHANGED <<naUser, naToken, naSession, naNow, naLog>>
  /\ UNCHANGED <<apVars, tmVars>>

\* jwt on the initial sign-in (user and account are passed)
jwt(refresh) ==
  /\ naPc = "allowed"
  /\ naToken' = JwtCallback(DefaultToken(naUser), naUser, naFlow.provider,
                            naNow, refresh)
  /\ naLog' = IF JwtRefreshes(JwtSignIn(DefaultToken(naUser), naUser,
                                         naFlow.provider), naNow)
                THEN [naLog EXCEPT !.refreshPosts = @ + 1, !.jwtAt = naNow]
                ELSE [naLog EXCEPT !.jwtAt = naNow]
  /\ naPc' = "signedIn"
  /\ UNCHANGED <<naFlow, naUser, naSession, naNow>>
  /\ UNCHANGED <<apVars, tmVars>>

\* a session read: jwt without user and account, then session
session(refresh) ==
  /\ naPc = "signedIn"
  /\ naToken' = JwtCallback(naToken, NoNaUser, "none", naNow, refresh)
  /\ naLog' = IF JwtRefreshes(naToken, naNow)
                THEN [naLog EXCEPT !.refreshPosts = @ + 1, !.jwtAt = naNow]
                ELSE [naLog EXCEPT !.jwtAt = naNow]
  /\ naSession' = SessionCallback(naToken')
  /\ UNCHANGED <<naPc, naFlow, naUser, naNow>>
  /\ UNCHANGED <<apVars, tmVars>>

\* events.signOut: the headers of its POST /api/auth/logout
SignOutHeaders(token) ==
  [Authorization |-> token.accessToken, XCsrfToken |-> token.csrfToken]

\* events.signOut: POST /api/auth/logout when the token has an access
\* token, errors swallowed; NextAuth then drops the session cookie
signOut(backendOk) ==
  /\ naPc = "signedIn"
  /\ naLog' = IF naToken.accessToken # 0
                THEN [naLog EXCEPT !.logoutPosts = @ + 1,
                                   !.logoutAuthorization =
                                      SignOutHeaders(naToken).Authorization,
                                   !.logoutCsrf =
                                      SignOutHeaders(naToken).XCsrfToken]
                ELSE naLog
  /\ naToken' = NoJWT
  /\ naSession' = NoJWT
  /\ naPc' = "signedOut"
  /\ UNCHANGED <<naFlow, naUser, naNow>>
  /\ UNCHANGED <<apVars, tmVars>>

\* Date.now() moves on, by a minute or by half an hour
tick(d) ==
  /\ naNow + d <= ThirtyMinutes + MaxNow
  /\ d = 1 => naNow % ThirtyMinutes < MaxNow
  /\ naNow' = naNow + d
  /\ UNCHANGED <<naPc, naFlow, naUser, naToken, naSession, naLog>>
  /\ UNCHANGED <<apVars, tmVars>>

NextAuthNext ==
  \/ \E hasEmail, hasPassword \in BOOLEAN : authorize(hasEmail, hasPassword)
  \/ \E ok \in BOOLEAN, resp \in LoginResponses : authorizeSettled(ok, resp)
  \/ \E provider \in OAuthProviders, v \in CorrelationValues : beginRedirect(provider, v)
  \/ \E v \in CorrelationValues : oauthCallback(v)
  \/ \E windowDefined \in BOOLEAN : signIn(windowDefined)
  \/ \E refresh \in RefreshResponses : jwt(refresh)
  \/ \E refresh \in RefreshResponses : session(refresh)
  \/ \E backendOk \in BOOLEAN : signOut(backendOk)
  \/ \E d \in {1, ThirtyMinutes} : tick(d)

NextAuthSpec == Init /\ [][NextAuthNext]_vars

----------------------------------------------------------------------------
\* The Timer component (components/ui/Timer.tsx)

\* handleComplete, run as many times as the state updater that calls it is
\* invoked: setIsActive(false) and, if a callback was passed, onComplete()
handleComplete(runs) ==
  /\ isActive' = FALSE
  /\ onCompleteCalls' = IF onComplete THEN onCompleteCalls + runs
                                     ELSE onCompleteCalls

\* How often React invokes a state updater function: once, or twice in a
\* development build with reactStrictMode
UpdaterRuns == IF strictMode THEN 2 ELSE 1

\* The interval callback installed by the effect while isActive and not
\* isPaused: setTimeRemaining(prev => ...)
intervalTick ==
  /\ isActive /\ ~isPaused
  /\ IF timeRemaining <= 1
       THEN /\ onCompleteCalls + UpdaterRuns <= MaxOnComplete
            /\ timeRemaining' = 0
            /\ handleComplete(UpdaterRuns)
       ELSE /\ timeRemaining' = timeRemaining - 1
            /\ UNCHANGED <<isActive, onCompleteCalls>>
  /\ UNCHANGED <<initialTimeInSeconds, onComplete, isPaused, strictMode>>
  /\ UNCHANGED <<apVars, naVars>>

\* Start button, rendered while neither isActive nor isPaused
startTimer ==
  /\ ~isActive /\ ~isPaused
  /\ isActive' = TRUE
  /\ isPaused' = FALSE
  /\ UNCHANGED <<initialTimeInSeconds, onComplete, timeRemaining,
                 strictMode, onCompleteCalls>>
  /\ UNCHANGED <<apVars, naVars>>

\* Pause button, rendered while isActive and not isPaused
pauseTimer ==
  /\ isActive /\ ~isPaused
  /\ isPaused' = TRUE
  /\ UNCHANGED <<initialTimeInSeconds, onComplete, timeRemaining, isActive,
                 strictMode, onCompleteCalls>>
  /\ UNCHANGED <<apVars, naVars>>

\* Resume button, rendered while isPaused
resumeTimer ==
  /\ isPaused
  /\ isPaused' = FALSE
  /\ UNCHANGED <<initialTimeInSeconds, onComplete, timeRemaining, isActive,
                 strictMode, onCompleteCalls>>
  /\ UNCHANGED <<apVars, naVars>>

\* Reset button, disabled while the full time remains and the timer is not
\* active; a new countdown begins
resetTimer ==
  /\ ~(timeRemaining = initialTimeInSeconds /\ ~isActive)
  /\ timeRemaining' = initialTimeInSeconds
  /\ isActive' = FALSE
  /\ isPaused' = FALSE
  /\ onCompleteCalls' = 0
  /\ UNCHANGED <<initialTimeInSeconds, onComplete, strictMode>>
  /\ UNCHANGED <<apVars, naVars>>

TimerNext ==
  \/ intervalTick
  \/ startTimer
  \/ pauseTimer
  \/ resumeTimer
  \/ resetTimer

\* A page that mounts a Timer with some initial time, started or not, in a
\* production or a development build; nobody is signed in
TimerInit ==
  /\ localStorage = NoStorage
  /\ authHeader = NoToken
  /\ user = NullUser
  /\ isLoading = TRUE
  /\ isAuthenticated = FALSE
  /\ route = ""
  /\ initPc = "start"
  /\ calls = [c \in CallIds |-> IdleCall]
  /\ nextCall = 1
  /\ refreshPosts = 0
  /\ last = [op |-> "none", id |-> -1, ev |-> "none", stale |-> FALSE]
  /\ stale = {}
  /\ idp = [invalidated |-> {}, issuer |-> localStorage.access_token,
            expired |-> FALSE]
  /\ NextAuthInit
  /\ \E initial \in 1..MaxTime, callback, autoStart, strict \in BOOLEAN :
       TimerMounted(initial, callback, autoStart, strict)

TimerSpec == TimerInit /\ [][TimerNext]_vars

----------------------------------------------------------------------------
TypeOK ==
  /\ localStorage \in [access_token : 0 .. MaxCalls + 2, refresh_token : 0 .. MaxCalls + 2]
  /\ authHeader \in 0 .. MaxCalls + 2
  /\ user \in -1 .. MaxCalls + 2
  /\ isLoading \in BOOLEAN /\ isAuthenticated \in BOOLEAN
  /\ route \in {"", "/dashboard", "/", "/login"}
  /\ initPc \in {"start", "awaiting", "done"}
  /\ nextCall \in 1 .. MaxCalls + 1
  /\ refreshPosts \in 0 .. MaxCalls + 1
  /\ idp \in [invalidated : SUBSET (1 .. MaxCalls + 2),
              issuer : 0 .. MaxCalls + 2, expired : BOOLEAN]
  /\ \A c \in CallIds : calls[c].sent \in 0 .. MaxCalls + 2

----------------------------------------------------------------------------
(* Properties of AuthProvider.                                             *)

\* No token stored, no header, no user, not authenticated.
Cleared ==
  /\ localStorage = NoStorage
  /\ authHeader = NoToken
  /\ user = NullUser
  /\ isAuthenticated = FALSE

FullyPresent ==
  /\ localStorage.access_token # NoToken
  /\ localStorage.refresh_token # NoToken
  /\ user # NullUser
  /\ isAuthenticated = TRUE

FullyAbsent ==
  /\ localStorage = NoStorage
  /\ user = NullUser
  /\ isAuthenticated = FALSE

\* No operation is in flight.
Quiescent ==
  /\ initPc = "done"
  /\ \A c \in CallIds : calls[c].pc # "awaiting"

\* Callers' refreshToken calls issued while authenticated and still in flight.
ConcurrentRefresh ==
  {c \in CallIds : /\ calls[c].op = "refreshToken"
                   /\ calls[c].pc = "awaiting"
                   /\ calls[c].auth}

\* C1: refreshToken calls issued concurrently while authenticated are served
\* by one and the same POST /api/auth/refresh (and so see one outcome).
C1_SingleFlightRefresh ==
  \A c1, c2 \in ConcurrentRefresh : calls[c1].post = calls[c2].post

\* C2: a refresh (a caller's or the mount's) that was in flight when a
\* logout completed leaves the session cleared when it resolves later.
C2_LateRefreshDiscarded ==
  (/\ last.op \in {"refreshToken", "initAuth"}
   /\ last.ev \in {"ok", "fail"}
   /\ last.stale) => Cleared

\* C3: whenever a refreshToken call fails (missing or rejected refresh token,
\* network error), its own completion leaves both tokens removed, user null
\* and isAuthenticated false, and the call is rejected.
C3_RefreshFailureClears ==
  (last.op = "refreshToken" /\ last.ev = "fail")
    => (Cleared /\ calls[last.id].pc = "rejected")

\* a refresh whose network call failed while a session was being used
C3_Witness ==
  /\ last.op = "refreshToken" /\ last.ev = "fail"
  /\ calls[last.id].post > 0
  /\ calls[last.id].auth

\* C5: when no operation is in flight the session is fully present or fully
\* absent.
C5_FullyPresentOrAbsent ==
  Quiescent => (FullyPresent \/ FullyAbsent)

\* C6: the steps of a login or register call that fails leave the stored
\* tokens, the Authorization header, user and isAuthenticated unchanged, and
\* the call is rejected to its caller.
C6_FailedSignInFrame ==
  [][(last'.op \in {"login", "register"} /\ last'.ev \in {"start", "fail"})
       => /\ UNCHANGED sessionVars
          /\ (last'.ev = "fail" => calls'[last'.id].pc = "rejected")]_vars

\* a login failed and the session that existed before it is still there
C6_Witness ==
  /\ last.op = "login" /\ last.ev = "fail"
  /\ FullyPresent
  /\ authHeader = localStorage.access_token

\* C7: every logout ends with the tokens removed, the header emptied, user
\* null and isAuthenticated false, whether the backend request succeeded or
\* not, and the call resolves (a backend failure is not propagated).
C7_LogoutAlwaysClears ==
  (last.op = "logout" /\ last.ev \in {"ok", "backendFail"})
    => (Cleared /\ calls[last.id].pc = "resolved")

\* a logout whose backend request failed, called on an authenticated session
C7_Witness ==
  /\ last.op = "logout" /\ last.ev = "backendFail"
  /\ calls[last.id].auth

\* C8: a mount-time refresh that is in flight eventually settles, and when
\* it settles with a failure the provider is, at that point, not loading,
\* not authenticated, without user and without stored tokens.
C8_MountRefreshFailure ==
  (initPc = "awaiting")
    ~> (/\ initPc = "done"
        /\ last.op = "initAuth"
        /\ (last.ev = "fail" => (Cleared /\ isLoading = FALSE)))

\* the mount-time refresh was posted and failed
C8_Witness ==
  /\ last.op = "initAuth" /\ last.ev = "fail"
  /\ refreshPosts > 0
  /\ isLoading = FALSE

\* C9: isLoading stays true until the mount-time refresh has resolved, and
\* the mount issues exactly one refresh call.
C9_LoadingUntilMountRefresh ==
  initPc = "awaiting" => isLoading = TRUE

\* C10: the stored access token and the stored refresh token come from one
\* and the same response.
C10_TokenPairFromOneResponse ==
  (localStorage.access_token # NoToken /\ localStorage.refresh_token # NoToken)
    => localStorage.access_token = localStorage.refresh_token

----------------------------------------------------------------------------
(* Properties of the NextAuth route.                                       *)

----------------------------------------------------------------------------
(* Properties of the refreshed, replaced and expired session.              *)

\* C11: when a refresh succeeds, localStorage holds the access token of that
\* response and, as the refresh token for the next refresh, the one the
\* identity provider issued last (the rotated one when the response carried
\* one).
C11_RefreshSwapsInNewTokens ==
  (last.op \in {"refreshToken", "initAuth"} /\ last.ev = "ok")
    => /\ localStorage.access_token = RespId(last.id)
       /\ authHeader = RespId(last.id)
       /\ localStorage.refresh_token = idp.issuer

\* C12: once the identity provider has invalidated the refresh token that
\* belongs to the access token the client holds (rotated away by a refresh,
\* or revoked by a logout request), that access token is neither in
\* localStorage nor in the default Authorization header.
C12_NoAccessTokenOfInvalidatedRefresh ==
  (localStorage.access_token # NoToken \/ authHeader # NoToken)
    => idp.issuer \notin idp.invalidated

\* The session a stored value belongs to, named by the refresh token of that
\* session: a value of a login or register response belongs to the session
\* that response opened, a value of a refresh response to the session whose
\* refresh token the request carried.
SessionOf(v) ==
  IF v <= Persisted THEN v
  ELSE IF v = RespId(InitAuthId) THEN Persisted
  ELSE IF calls[v - 2].op = "refreshToken" THEN calls[v - 2].sent
  ELSE v

\* C13: after a login() called while a session existed has succeeded, and for
\* as long as its refresh token is the stored one, the stored access token and
\* the user are values of that login's session; no value of a prior session
\* (such as the result of a refresh still in flight) appears.
C13_LoginReplacesPriorSession ==
  \A c \in CallIds :
    (/\ calls[c].op = "login" /\ calls[c].auth
     /\ localStorage.refresh_token = RespId(c))
      => /\ SessionOf(localStorage.access_token) = RespId(c)
         /\ SessionOf(authHeader) = RespId(c)
         /\ user # UndefinedUser => SessionOf(user) = RespId(c)

\* C14: the context exposes a user only while localStorage holds an access
\* token that has not expired.
C14_UserOnlyWithValidAccessToken ==
  user \notin {NullUser, UndefinedUser}
    => (localStorage.access_token # NoToken /\ ~idp.expired)

\* C15: right after an authenticated request was rejected with an
\* invalid-token signal the session is unauthenticated: no token stored, user
\* null, isAuthenticated false.
C15_InvalidTokenForcesUnauthenticated ==
  (last.op = "request" /\ last.ev = "invalidToken") => Cleared

C18_PersistedSessionRoundTrip ==
  (/\ last.op = "initAuth" /\ last.ev = "start"
   /\ localStorage = [access_token |-> Persisted, refresh_token |-> Persisted])
    => /\ authHeader = Persisted
       /\ user = Persisted
       /\ isAuthenticated

\* C19: when the mount finds no usable session in localStorage (nothing, or
\* one token without the other) and ends without a network call, the
\* provider is unauthenticated with user null and no token is left stored.
C19_PartialDataIsNoSession ==
  (last.op = "initAuth" /\ last.ev \in {"noToken", "fail"})
    => /\ ~isAuthenticated
       /\ user = NullUser
       /\ localStorage = NoStorage

----------------------------------------------------------------------------
(* Properties of the sessions the NextAuth route builds.                   *)

\* C17: after a google or facebook sign-in has gone through, the NextAuth
\* token carries an access token, a refresh token, the user's id, email, role
\* and permissions, and the name of the OAuth provider, and so does every
\* session read from it.
C17_OAuthSessionPopulated ==
  (naPc = "signedIn" /\ naFlow.provider \in OAuthProviders)
    => /\ naToken.accessToken # 0 /\ naToken.refreshToken # 0
       /\ naToken.id # 0 /\ naToken.email # 0 /\ naToken.role # 0
       /\ naToken.permissions # NoPermissions
       /\ naToken.provider = naFlow.provider
       /\ naSession \in {NoJWT, SessionCallback(naToken)}

\* what a token or a session carries of the user authorize returned
CarriesCredentials(t) ==
  /\ t.provider = "credentials"
  /\ t.accessToken = naUser.accessToken
  /\ t.refreshToken = naUser.refreshToken
  /\ t.id = naUser.id /\ t.email = naUser.email /\ t.role = naUser.role
  /\ t.permissions = IF naUser.permissions = NoPermissions
                        THEN EmptyPermissions ELSE naUser.permissions

\* C20: after a credentials sign-in the token built by the jwt callback, and
\* every session the session callback derives from it, has provider
\* "credentials" and the access token, refresh token and user fields that
\* authorize took from the backend's response.
C20_CredentialsSession ==
  (naPc = "signedIn" /\ naFlow.provider = "credentials")
    => /\ naToken.accessToken # 0
       /\ CarriesCredentials(naToken)
       /\ naSession # NoJWT => CarriesCredentials(naSession)

\* a session has been read after a credentials sign-in whose response had a
\* refresh token and permissions
C20_Witness ==
  /\ naPc = "signedIn" /\ naFlow.provider = "credentials"
  /\ naSession # NoJWT
  /\ naSession.provider = "credentials"
  /\ naSession.refreshToken # 0
  /\ naSession.permissions = UserPermissions

----------------------------------------------------------------------------
(* Properties of the requests, of their ordering and of the flags.         *)

\* C21: once the mount effect has run, the default Authorization header is
\* the bearer of the access token in localStorage, and it is empty exactly
\* when no access token is stored; the logout request of the NextAuth
\* signOut event carries the access token and the CSRF token of the session
\* built from the login response.
C21_HeaderCarriesStoredToken ==
  /\ initPc # "start"
       => /\ authHeader = localStorage.access_token
          /\ (authHeader = NoToken) <=> (localStorage.access_token = NoToken)
  /\ \A resp \in LoginResponses :
       LET u == AuthorizeResult(TRUE, resp)
           t == JwtSignIn(DefaultToken(u), u, "credentials")
       IN  u # NoNaUser
             => /\ SignOutHeaders(t).Authorization = resp.access_token
                /\ SignOutHeaders(t).XCsrfToken = resp.csrf_token

\* a logout request is under way while the header carries the access token
\* a refresh response brought
C21_Witness ==
  /\ initPc = "done"
  /\ authHeader > Persisted
  /\ \E c \in CallIds : /\ calls[c].op = "logout" /\ calls[c].pc = "awaiting"
                        /\ calls[c].sent # NoToken

\* C22: once the access token of a credentials session is more than thirty
\* minutes old and the token holds a refresh token, a jwt invocation made
\* after that expiry has issued a request to /api/auth/refresh.
C22_ExpiredTokenIsRefreshed ==
  (/\ naPc = "signedIn"
   /\ naToken.accessToken # 0 /\ naToken.refreshToken # 0
   /\ naLog.jwtAt > naLog.issuedAt + ThirtyMinutes)
    => naLog.refreshPosts > 0

\* C23: whatever the order in which the operations in flight were issued,
\* the session is what the operation that settled last wrote: the tokens,
\* user and isAuthenticated of a sign-in, the access token and user of a
\* refresh, the cleared session of a logout or of a failed refresh.
C23_LastResolvedWins ==
  /\ (last.op \in {"login", "register"} /\ last.ev = "ok")
       => /\ localStorage = [access_token |-> RespId(last.id),
                             refresh_token |-> RespId(last.id)]
          /\ user = RespId(last.id)
          /\ isAuthenticated
  /\ (last.op \in {"refreshToken", "initAuth"} /\ last.ev = "ok")
       => /\ localStorage.access_token = RespId(last.id)
          /\ user \in {RespId(last.id), UndefinedUser}
  /\ (last.op = "initAuth" /\ last.ev = "ok") => isAuthenticated
  /\ (\/ last.op = "logout" /\ last.ev \in {"ok", "backendFail"}
      \/ last.op \in {"refreshToken", "initAuth"} /\ last.ev = "fail")
       => Cleared

\* a login issued before a refresh settles after it
C23_Witness ==
  /\ last.op = "login" /\ last.ev = "ok"
  /\ \E d \in CallIds : /\ d > last.id
                        /\ calls[d].op = "refreshToken"
                        /\ calls[d].pc = "resolved"

\* C24: when the refresh request of the jwt callback fails for the token of
\* a credentials session, the token it returns has error
\* RefreshAccessTokenError, the session derived from it has the same
\* session.error, and that session no longer exposes the access token and
\* the refresh token.
C24_RefreshFailureEndsSession ==
  (naPc = "signedIn" /\ naToken.accessToken # 0 /\ naToken.refreshToken # 0)
    => \A refresh \in RefreshResponses :
         ~refresh.ok
           => LET failed == JwtRefreshAttempt(naToken, refresh)
                  derived == SessionCallback(failed)
              IN  /\ failed.error = "RefreshAccessTokenError"
                  /\ derived.error = failed.error
                  /\ derived.accessToken = 0
                  /\ derived.refreshToken = 0

\* C25: authorize ends without a user object, and so without a session,
\* when email or password is missing (and then no login request is made),
\* when the login request fails, and when the response lacks user or
\* access_token; it returns a user object exactly when the request
\* succeeded with both.
C25_AuthorizeNullUnlessUserAndToken ==
  [][/\ \A hasEmail, hasPassword \in BOOLEAN :
          (authorize(hasEmail, hasPassword) /\ ~(hasEmail /\ hasPassword))
            => /\ naLog'.loginPosts = naLog.loginPosts
               /\ naUser' = NoNaUser
               /\ naPc' = "signedOut" /\ naToken' = NoJWT /\ naSession' = NoJWT
     /\ \A ok \in BOOLEAN, resp \in LoginResponses :
          authorizeSettled(ok, resp)
            => /\ (naUser' # NoNaUser)
                    <=> (ok /\ resp.user # 0 /\ resp.access_token # 0)
               /\ naUser' = NoNaUser
                    => /\ naPc' = "signedOut"
                       /\ naToken' = NoJWT /\ naSession' = NoJWT
               /\ naUser' # NoNaUser
                    => /\ naPc' = "authorized"
                       /\ naUser'.id = resp.user
                       /\ naUser'.accessToken = resp.access_token]_vars

\* one credentials sign-in was given up for a missing field, a second one
\* made its login request and ended without a user
C25_Witness ==
  /\ naFlow.provider = "credentials"
  /\ naPc = "signedOut" /\ naUser = NoNaUser
  /\ naLog.signIns = 2 /\ naLog.loginPosts = 1
  /\ naLog.logoutPosts = 0 /\ naToken = NoJWT

\* C26: a mount that finds no access token makes no network call and ends
\* with isLoading false and isAuthenticated false; every refresh request is
\* made either by the mount effect or at the moment a caller calls
\* refreshToken, one request per call, and no response, failure or other
\* operation makes the provider send one on its own.
C26_OnlyMountCallsOnItsOwn ==
  [][/\ (initAuth /\ localStorage.access_token = NoToken)
          => /\ refreshPosts' = 0
             /\ ~isLoading' /\ ~isAuthenticated'
             /\ initPc' = "done"
     /\ refreshPosts' # refreshPosts
          => /\ refreshPosts' = refreshPosts + 1
             /\ last'.ev = "start"
             /\ \/ last'.op = "initAuth" /\ initPc = "start"
                \/ /\ last'.op = "refreshToken"
                   /\ calls[last'.id].pc = "idle"
                   /\ calls'[last'.id].pc = "awaiting"]_vars

\* a session built by a login after a mount that made no request: no
\* refresh request has been made at all
C26_Witness ==
  /\ initPc = "done"
  /\ refreshPosts = 0
  /\ isAuthenticated
  /\ \E c \in CallIds : calls[c].op = "login" /\ calls[c].pc = "resolved"

\* C27: a logout that completes, or a refresh that fails, on a session that
\* is cleared already leaves localStorage, the Authorization header, user
\* and isAuthenticated as the first clear left them.
C27_ClearIsIdempotent ==
  [][(/\ Cleared
      /\ \/ \E c \in CallIds, backendOk \in BOOLEAN : logoutSettled(c, backendOk)
         \/ \E c \in CallIds : refreshTokenRejected(c)
         \/ \E c \in CallIds : refreshToken(c) /\ last'.ev = "fail"
         \/ initAuthRefreshFailed)
       => UNCHANGED sessionVars]_vars

\* after a logout has completed, a refresh fails for want of a refresh token
C27_Witness ==
  /\ Cleared
  /\ last.op = "refreshToken" /\ last.ev = "fail"
  /\ calls[last.id].post = 0
  /\ \E c \in CallIds : /\ c < last.id
                        /\ calls[c].op = "logout" /\ calls[c].pc = "resolved"

\* C28: whenever isAuthenticated is true the context exposes a user (neither
\* null nor undefined), also after a refresh whose response has no user
\* field and after the mount-time refresh.
C28_AuthenticatedHasUser ==
  isAuthenticated => user \notin {NullUser, UndefinedUser}

\* C29: a login or register call has isLoading true once it has started and
\* false once its network call has settled, with success or with failure;
\* when the mount has finished and no login or register is in flight,
\* isLoading is false.
C29_LoadingFollowsSignIn ==
  /\ (last.op \in {"login", "register"} /\ last.ev = "start") => isLoading
  /\ (last.op \in {"login", "register"} /\ last.ev \in {"ok", "fail"})
       => ~isLoading
  /\ (/\ initPc = "done"
      /\ \A c \in CallIds : ~(/\ calls[c].op \in {"login", "register"}
                               /\ calls[c].pc = "awaiting"))
       => ~isLoading

\* a register call has failed after a login call had succeeded, the mount
\* being over
C29_Witness ==
  /\ initPc = "done"
  /\ last.op = "register" /\ last.ev = "fail"
  /\ \E c \in CallIds : calls[c].op = "login" /\ calls[c].pc = "resolved"
  /\ ~isLoading

\* C30: in the Timer, whatever the sequence of start, pause, resume, reset
\* and tick events, timeRemaining stays within 0..initialTimeInSeconds, it
\* decreases only while the timer is active and not paused and then by
\* exactly 1, and the tick that brings it to 0 makes the timer inactive and
\* invokes onComplete exactly once for that countdown (no further time
\* until the next reset).
C30_CountdownCompletesOnce ==
  [][/\ timeRemaining' \in 0..initialTimeInSeconds
     /\ timeRemaining' < timeRemaining
          => isActive /\ ~isPaused /\ timeRemaining' = timeRemaining - 1
     /\ (timeRemaining > 0 /\ timeRemaining' = 0)
          => /\ ~isActive'
             /\ onComplete => onCompleteCalls' = onCompleteCalls + 1
     /\ onCompleteCalls' <= 1]_vars

====
